---- MODULE Spec2Model ----
(***************************************************************************)
(* Model of ytmusicapi's BrowsingMixin (src/ytmusicapi/mixins/browsing.py): *)
(* search, get_artist, get_artist_albums and get_album.  One client calls   *)
(* one operation at a time; every operation builds a request body, calls    *)
(* the request-sending collaborator and parses the document it returns.     *)
(* Python strings the code slices, splits or lower-cases are sequences of   *)
(* one-character strings, so that the slicing is computed, not assumed.     *)
(***************************************************************************)
EXTENDS Integers, Sequences, FiniteSets, TLC

VARIABLES pc, op, filter, body, requests, response, outcome, result

vars == <<pc, op, filter, body, requests, response, outcome, result>>

(* ------------------------------ bounds -------------------------------- *)
MaxSections == 2
MaxItems == 1

(* --------------------------- Python values ---------------------------- *)
\* An optional string: Python's None, or a str.
None == [present |-> FALSE, text |-> <<>>]
Some(s) == [present |-> TRUE, text |-> s]
\* Python truthiness of an optional string: None and '' are falsy.
Truthy(v) == v.present /\ Len(v.text) > 0
\* s[:-1]
DropLast(s) == IF Len(s) = 0 THEN <<>> ELSE SubSeq(s, 1, Len(s) - 1)

SeqsUpTo(S, n) == UNION {[1..k -> S] : k \in 0..n}

NoValue == [kind |-> "none"]

(* ------------------------------ search -------------------------------- *)
albums == <<"a", "l", "b", "u", "m", "s">>
artists == <<"a", "r", "t", "i", "s", "t", "s">>
playlists == <<"p", "l", "a", "y", "l", "i", "s", "t", "s">>
songs == <<"s", "o", "n", "g", "s">>
videos == <<"v", "i", "d", "e", "o", "s">>

\* line 46
filters == {albums, artists, playlists, songs, videos}

\* Filter arguments a caller passes: absent, empty, recognized, unrecognized.
FilterArgs ==
    {None, Some(<<>>)} \cup {Some(f) : f \in filters}
        \cup {Some(DropLast(songs)), Some(<<"t", "r", "a", "c", "k", "s">>)}

\* the filter is never validated
InvalidFilter_unchecked(f) == FALSE

\* line 47: `filter and filter not in filters`
InvalidFilter(f) == Truthy(f) /\ f.text \notin filters

\* lines 43, 52-67: the request body
SearchBody(f) ==
    IF Truthy(f)
    THEN [query |-> "q",
          params |-> << "Eg-KAQwIA",
                        CASE f.text = videos -> "BABGAAgACgA"
                          [] f.text = albums -> "BAAGAEgACgA"
                          [] f.text = artists -> "BAAGAAgASgA"
                          [] f.text = playlists -> "BAAGAAgACgB"
                          [] OTHER -> "RAAGAAgACgA",
                        "MABqChAEEAMQCRAFEAo%3D" >>]
    ELSE [query |-> "q"]

\* A shelf item: "ok" is a map whose 'musicResponsiveListItemRenderer' the
\* search-result parser accepts; "bad" is an item that lacks the renderer key
\* or that the parser raises on (either way an exception at this item).
SearchItems == {"ok", "bad"}

\* The elements of the section list.  A shelf is a map with the key
\* 'musicShelfRenderer' (with or without 'contents' below it); an item section
\* is a map with the key 'itemSectionRenderer'; "other" is any other map;
\* "leaf" is the bare string 'itemSectionRenderer' as a list element.
Shelf(items) == [kind |-> "musicShelfRenderer", hasContents |-> TRUE, contents |-> items]
BrokenShelf == [kind |-> "musicShelfRenderer", hasContents |-> FALSE, contents |-> <<>>]
ItemSection(items) == [kind |-> "itemSectionRenderer", hasContents |-> TRUE, contents |-> items]
OtherSection == [kind |-> "other", hasContents |-> FALSE, contents |-> <<>>]
LeafSection == [kind |-> "leaf", hasContents |-> FALSE, contents |-> <<>>]

SearchSections ==
    {Shelf(c) : c \in SeqsUpTo(SearchItems, MaxItems)}
        \cup {BrokenShelf, OtherSection, LeafSection}
        \cup {ItemSection(<<i>>) : i \in SearchItems}

\* Response documents of the search endpoint.  container: whether the document
\* has 'contents' and whether the tabbed renderer wraps the section list;
\* sectionList: whether the SECTION_LIST path resolves below the container.
SearchDoc(c, ok, s) == [kind |-> "search", container |-> c, sectionList |-> ok, sections |-> s]

SearchDocs ==
    {SearchDoc("absent", FALSE, <<>>), SearchDoc("tabbedBroken", FALSE, <<>>)}
        \cup {SearchDoc(c, FALSE, <<>>) : c \in {"tabbed", "plain"}}
        \cup {SearchDoc(c, TRUE, s) :
                c \in {"tabbed", "plain"}, s \in SeqsUpTo(SearchSections, MaxSections)}

\* parse_search_result(data, type): the record parsed from the item at
\* position idx of section sec, tagged with the given type, or with the type
\* the parser detects when none is given.
ParseSearchResult(sec, idx, type) ==
    [section |-> sec, item |-> idx,
     resultType |-> IF type.present THEN type.text ELSE <<"d", "e", "t", "e", "c", "t", "e", "d">>]

\* line 94: `filter[:-1] if filter else None`
ResultType(f) == IF Truthy(f) THEN Some(DropLast(f.text)) ELSE None

\* lines 92-96: the loop over the items of one shelf.  acc is search_results;
\* the result says whether an exception ended the loop.
RECURSIVE WalkItems(_, _, _, _, _)
WalkItems(items, sec, idx, f, acc) ==
    IF idx > Len(items) THEN [results |-> acc, failed |-> FALSE]
    ELSE IF items[idx] # "ok" THEN [results |-> acc, failed |-> TRUE]
    ELSE WalkItems(items, sec, idx + 1, f,
                   Append(acc, ParseSearchResult(sec, idx, ResultType(f))))

\* any renderer with contents is taken for a shelf
IsShelf_anyRenderer(res) == res.kind \in {"musicShelfRenderer", "itemSectionRenderer"}

\* line 89: `'musicShelfRenderer' in res` (a substring test on a string leaf)
IsShelf(res) == res.kind = "musicShelfRenderer"

\* line 90: res['musicShelfRenderer']['contents']
ShelfContents(res) == [ok |-> res.hasContents, items |-> res.contents]

\* lines 88-96: the loop over the sections
RECURSIVE WalkSections(_, _, _, _)
WalkSections(sections, sec, f, acc) ==
    IF sec > Len(sections) THEN [results |-> acc, failed |-> FALSE]
    ELSE IF ~IsShelf(sections[sec]) THEN WalkSections(sections, sec + 1, f, acc)
    ELSE LET c == ShelfContents(sections[sec]) IN
         IF ~c.ok THEN [results |-> acc, failed |-> TRUE]
         ELSE LET w == WalkItems(c.items, sec, 1, f, acc) IN
              IF w.failed THEN w ELSE WalkSections(sections, sec + 1, f, w.results)

\* line 85: `len(results) == 1 and 'itemSectionRenderer' in results`:
\* membership of the string in the list, true only of a list element equal to it.
NoResultsSection(sections) ==
    Len(sections) = 1 /\ \E i \in DOMAIN sections : sections[i].kind = "leaf"

\* lines 71-96: the body of the try block
SearchTry(doc, f) ==
    IF doc.container = "absent" THEN [results |-> <<>>, failed |-> FALSE]
    ELSE IF doc.container = "tabbedBroken" \/ ~doc.sectionList
         THEN [results |-> <<>>, failed |-> TRUE]
    ELSE IF NoResultsSection(doc.sections) THEN [results |-> <<>>, failed |-> FALSE]
    ELSE WalkSections(doc.sections, 1, f, <<>>)

\* the except clause returns a fresh empty list
SearchHandle_dropsPartial(w) ==
    [status |-> "returned", value |-> IF w.failed THEN <<>> ELSE w.results]

\* lines 98-101: the except clause prints the error; search_results is returned
SearchHandle(w) == [status |-> "returned", value |-> w.results]

SearchResultOf(doc, f) == SearchHandle(SearchTry(doc, f))

(* ----------------------------- get_artist ----------------------------- *)
UpperCase == <<"A", "B", "C", "D", "E", "F", "G", "H", "I", "J", "K", "L", "M",
               "N", "O", "P", "Q", "R", "S", "T", "U", "V", "W", "X", "Y", "Z">>
LowerCase == <<"a", "b", "c", "d", "e", "f", "g", "h", "i", "j", "k", "l", "m",
               "n", "o", "p", "q", "r", "s", "t", "u", "v", "w", "x", "y", "z">>

\* str.lower()
Lower(s) ==
    [i \in DOMAIN s |->
        IF \E j \in DOMAIN UpperCase : UpperCase[j] = s[i]
        THEN LowerCase[CHOOSE j \in DOMAIN UpperCase : UpperCase[j] = s[i]]
        ELSE s[i]]

singles == <<"s", "i", "n", "g", "l", "e", "s">>
alben == <<"a", "l", "b", "e", "n">>

Languages == {"en", "de"}

\* _(key): the label of a category in the language of the session
Translate(lang, key) ==
    CASE key = "albums" -> IF lang = "de" THEN alben ELSE albums
      [] key = "singles" -> singles
      [] key = "videos" -> videos

\* line 203
categories == <<"albums", "singles", "videos">>

\* line 204
CategoriesLocal(lang) == [i \in DOMAIN categories |-> Translate(lang, categories[i])]

Null == "null"

MaxCarousels == 2

\* Titles the backend renders above a carousel.
CarouselTitles ==
    {<<"A", "l", "b", "u", "m", "s">>, <<"A", "l", "b", "e", "n">>,
     <<"S", "i", "n", "g", "l", "e", "s">>, <<"V", "i", "d", "e", "o", "s">>,
     <<"F", "a", "n", "s">>}

\* A 'musicCarouselShelfRenderer' section: its title text, whether the title
\* run has a 'navigationEndpoint', and its contents.  Two variants per title: a title
\* with the endpoint over two items, and one without it over a single item.
Carousels ==
    [title : CarouselTitles, hasNav : {TRUE}, contents : {<<"a1", "a2">>}]
        \cup [title : CarouselTitles, hasNav : {FALSE}, contents : {<<"b1">>}]

\* Artist pages.  tab: whether SINGLE_COLUMN_TAB + SECTION_LIST resolves.  The
\* section list is the top-songs shelf (if any), the carousels, and the
\* description shelf (if any).
ArtistDoc(ok, l, sg, cs, d) ==
    [kind |-> "artist", tab |-> ok, lang |-> l, songs |-> sg, carousels |-> cs, description |-> d]

ArtistDocs ==
    {ArtistDoc(FALSE, "en", "absent", <<>>, "absent")}
        \cup {ArtistDoc(TRUE, l, sg, cs, d) :
                l \in Languages, sg \in {"absent", "plain", "nav"},
                cs \in SeqsUpTo(Carousels, MaxCarousels),
                d \in {"absent", "plain", "subheader"}}

\* the number of elements of `results`, line 178
SectionCount(doc) ==
    (IF doc.songs = "absent" THEN 0 ELSE 1) + Len(doc.carousels)
        + (IF doc.description = "absent" THEN 0 ELSE 1)

\* lines 180-195: the header block and the description shelf
ArtistHeader(doc) ==
    [description |-> IF doc.description = "absent" THEN Null ELSE "description",
     views |-> IF doc.description = "subheader" THEN "views" ELSE Null,
     name |-> "name", channelId |-> "channelId", subscribers |-> "subscribers",
     subscribed |-> "subscribed", thumbnails |-> "thumbnails"]

\* lines 196-201: the top-songs shelf
ArtistSongs(doc) ==
    IF doc.songs = "absent" THEN [browseId |-> Null]
    ELSE [browseId |-> IF doc.songs = "nav" THEN "songsBrowseId" ELSE Null,
          results |-> <<"song1", "song2">>]

\* the title is compared as rendered, not lower-cased
CategoryData_noLower(carousels, label) == SelectSeq(carousels, LAMBDA c : c.title = label)

\* lines 206-211: the carousels whose lower-cased title is the category's label
CategoryData(carousels, label) == SelectSeq(carousels, LAMBDA c : Lower(c.title) = label)

\* lines 224-235: the record of one carousel item; a field is the pair of the
\* item and the path it is read from
CarouselItem(item, category) ==
    IF category = "videos"
    THEN [title |-> item, thumbnails |-> <<item, "THUMBNAIL_RENDERER">>,
          views |-> <<item, "SUBTITLE2">>, videoId |-> <<item, "NAVIGATION_VIDEO_ID">>,
          playlistId |-> <<item, "NAVIGATION_PLAYLIST_ID">>]
    ELSE [title |-> item, thumbnails |-> <<item, "THUMBNAIL_RENDERER">>,
          year |-> <<item, IF category = "albums" THEN "SUBTITLE2" ELSE "SUBTITLE">>,
          browseId |-> <<item, "NAVIGATION_BROWSE_ID">>]

\* lines 213-236: artist[category], built from data[0]
CategoryRecord(first, category) ==
    LET base == [browseId |-> IF first.hasNav THEN "browseId" ELSE Null,
                 results |-> [i \in DOMAIN first.contents |->
                                 CarouselItem(first.contents[i], category)]]
    IN IF first.hasNav /\ category \in {"albums", "singles"}
       THEN base @@ ("params" :> "params")
       ELSE base

\* lines 205-236: the artist record after the first n categories
RECURSIVE ArtistCategories(_, _, _)
ArtistCategories(doc, artist, n) ==
    IF n = 0 THEN artist
    ELSE LET prev == ArtistCategories(doc, artist, n - 1)
             data == CategoryData(doc.carousels, CategoriesLocal(doc.lang)[n])
         IN IF Len(data) > 0
            THEN (categories[n] :> CategoryRecord(data[1], categories[n])) @@ prev
            ELSE prev

\* lines 178-238
GetArtistResult(doc) ==
    IF ~doc.tab THEN [status |-> "raised", value |-> [kind |-> "KeyError", at |-> "nav"]]
    ELSE IF SectionCount(doc) = 0
         THEN [status |-> "raised", value |-> [kind |-> "IndexError", at |-> "results[0]"]]
    ELSE [status |-> "returned",
          value |-> ArtistCategories(doc, ("songs" :> ArtistSongs(doc)) @@ ArtistHeader(doc),
                                     Len(categories))]

(* -------------------------- get_artist_albums ------------------------- *)
MaxRows == 2

\* A row of the listing: its flex columns, each the text runs of the column.
\* An album row's second column is type, separator, year; a single's is the year.
AlbumRow(t, type, year) == <<<<t>>, <<type, " - ", year>>>>
SingleRow(t, year) == <<<<t>>, <<year>>>>

ListingRows ==
    {AlbumRow("Familiar To Millions", "Album", "2018"), AlbumRow("This I Vow", "EP", "2020"),
     SingleRow("Stand By Me", "2016")}

ListingTitles == {<<"A", "l", "b", "u", "m", "s">>, <<"S", "i", "n", "g", "l", "e", "s">>}

ListingDoc(ok, t, rows) == [kind |-> "listing", header |-> ok, title |-> t, contents |-> rows]

ListingDocs ==
    {ListingDoc(FALSE, <<>>, <<>>)}
        \cup {ListingDoc(TRUE, t, rows) :
                t \in ListingTitles, rows \in SeqsUpTo(ListingRows, MaxRows)}

\* get_item_text(item, index, run_index=0): the text of run run_index of flex
\* column index, both counted from 0
HasItemText(data, index, run_index) ==
    index + 1 \in DOMAIN data /\ run_index + 1 \in DOMAIN data[index + 1]

get_item_text(data, index, run_index) == data[index + 1][run_index + 1]

\* lines 271-273: the text positions read from a row
RowReads(release_type) ==
    IF release_type = albums THEN {<<0, 0>>, <<1, 0>>, <<1, 2>>} ELSE {<<0, 0>>, <<1, 0>>}

\* the year of an album row read from the run after its type
AlbumRef_wrongRun(data, release_type) ==
    [browseId |-> <<get_item_text(data, 0, 0), "NAVIGATION_BROWSE_ID">>,
     artist |-> "artist",
     title |-> get_item_text(data, 0, 0),
     thumbnails |-> <<get_item_text(data, 0, 0), "THUMBNAILS">>,
     type |-> IF release_type = albums THEN get_item_text(data, 1, 0) ELSE "Single",
     year |-> IF release_type = albums THEN get_item_text(data, 1, 1)
              ELSE get_item_text(data, 1, 0)]

\* lines 267-281: the record of one row
AlbumRef(data, release_type) ==
    [browseId |-> <<get_item_text(data, 0, 0), "NAVIGATION_BROWSE_ID">>,
     artist |-> "artist",
     title |-> get_item_text(data, 0, 0),
     thumbnails |-> <<get_item_text(data, 0, 0), "THUMBNAILS">>,
     type |-> IF release_type = albums THEN get_item_text(data, 1, 0) ELSE "Single",
     year |-> IF release_type = albums THEN get_item_text(data, 1, 2)
              ELSE get_item_text(data, 1, 0)]

\* lines 262-283
GetArtistAlbumsResult(doc) ==
    IF ~doc.header THEN [status |-> "raised", value |-> [kind |-> "KeyError", at |-> "header"]]
    ELSE LET release_type == Lower(doc.title) IN
         IF \E i \in DOMAIN doc.contents : \E rd \in RowReads(release_type) :
                ~HasItemText(doc.contents[i], rd[1], rd[2])
         THEN [status |-> "raised", value |-> [kind |-> "IndexError", at |-> "get_item_text"]]
         ELSE [status |-> "returned",
               value |-> [i \in DOMAIN doc.contents |-> AlbumRef(doc.contents[i], release_type)]]

(* ----------------------------- get_album ------------------------------ *)
\* line 358: data[4:]
SkipCount == 4

Max(S) == CHOOSE x \in S : \A y \in S : y <= x

\* s.split('_')[-1]
LastSegment(s) ==
    LET us == {i \in DOMAIN s : s[i] = "_"} IN
      IF us = {} THEN s ELSE SubSeq(s, Max(us) + 1, Len(s))

NEUTRAL == <<"N", "E", "U", "T", "R", "A", "L">>
UNKNOWN == <<"U", "N", "K", "N", "O", "W", "N">>
LIKED == <<"L", "I", "K", "E", "D">>
DISLIKED == <<"D", "I", "S", "L", "I", "K", "E", "D">>
LIKE == <<"L", "I", "K", "E">>
DISLIKE == <<"D", "I", "S", "L", "I", "K", "E">>
INDIFFERENT == <<"I", "N", "D", "I", "F", "F", "E", "R", "E", "N", "T">>

\* the backend's prefix of a like state, as in LIKE_STATE_LIKED
LikeState(s) == <<"L", "I", "K", "E", "_", "S", "T", "A", "T", "E", "_">> \o s

\* the last segment is stored as it is, without the slice
NormalizeLike_noSlice(raw) ==
    LET like_state == LastSegment(raw) IN
      IF like_state \in {NEUTRAL, UNKNOWN} THEN INDIFFERENT ELSE like_state

\* lines 351-356: the like status stored for a raw like state
NormalizeLike(raw) ==
    LET like_state == LastSegment(raw) IN
      IF like_state \in {NEUTRAL, UNKNOWN} THEN INDIFFERENT ELSE DropLast(like_state)

\* The mutations of the Entity Graph.  key is the entityKey of a musicTrack
\* mutation and the parentTrack of a musicTrackUserDetail mutation.
Release == [kind |-> "musicAlbumRelease", key |-> "-", raw |-> <<>>]
Detail == [kind |-> "musicAlbumReleaseDetail", key |-> "-", raw |-> <<>>]
Artist == [kind |-> "musicArtist", key |-> "-", raw |-> <<>>]
Track(k) == [kind |-> "musicTrack", key |-> k, raw |-> <<>>]
UserDetail(k, raw) == [kind |-> "musicTrackUserDetail", key |-> k, raw |-> raw]

MaxTail == 2

\* Entity Graphs: any four leading mutations, then up to MaxTail more.
HeadMutations == {Release, Detail, Track("k1")}
TailMutations ==
    {Artist, Track("k1"), Track("k2")}
        \cup {UserDetail("k1", r) : r \in {LikeState(LIKED), LikeState(NEUTRAL), LIKE}}
        \cup {UserDetail("k2", r) : r \in {LikeState(DISLIKED), LikeState(UNKNOWN)}}

AlbumDoc(ok, m) == [kind |-> "album", mutations |-> ok, data |-> m]

AlbumDocs ==
    {AlbumDoc(FALSE, <<>>)}
        \cup {AlbumDoc(TRUE, h \o t) :
                h \in [1..SkipCount -> HeadMutations], t \in SeqsUpTo(TailMutations, MaxTail)}

\* find_object_by_key(data, key, 'payload', True) found something
HasKind(data, kind) == \E i \in DOMAIN data : data[i].kind = kind

\* find_objects_by_key(data, key, 'payload'): the matching mutations, in order
Positions(data, kind) == SelectSeq([i \in DOMAIN data |-> i], LAMBDA i : data[i].kind = kind)

\* lines 348-356: likes after the first n mutations; a later user detail of
\* the same parentTrack overwrites an earlier one.
RECURSIVE Likes(_, _)
Likes(data, n) ==
    IF n = 0 THEN << >>
    ELSE LET prev == Likes(data, n - 1) IN
         IF data[n].kind = "musicTrackUserDetail"
         THEN (data[n].key :> NormalizeLike(data[n].raw)) @@ prev
         ELSE prev

\* line 358: the indices of data[4:]
TrackScan(data) == {i \in DOMAIN data : i > SkipCount}

\* lines 358-371: the tracks built from the mutations up to position n;
\* `mutation` stands for the fields copied from that mutation's payload.
RECURSIVE Tracks(_, _, _)
Tracks(data, likes, n) ==
    IF n = 0 THEN [tracks |-> <<>>, failed |-> FALSE]
    ELSE LET prev == Tracks(data, likes, n - 1) IN
         IF prev.failed \/ n \notin TrackScan(data) \/ data[n].kind # "musicTrack" THEN prev
         ELSE IF data[n].key \notin DOMAIN likes THEN [tracks |-> prev.tracks, failed |-> TRUE]
         ELSE [tracks |-> Append(prev.tracks,
                                [mutation |-> n, likeStatus |-> likes[data[n].key]]),
               failed |-> FALSE]

\* lines 328-373
GetAlbumResult(doc) ==
    IF ~doc.mutations THEN [status |-> "raised", value |-> [kind |-> "KeyError", at |-> "nav"]]
    ELSE IF ~HasKind(doc.data, "musicAlbumRelease") \/ ~HasKind(doc.data, "musicAlbumReleaseDetail")
         THEN [status |-> "raised", value |-> [kind |-> "TypeError", at |-> "album"]]
    ELSE LET t == Tracks(doc.data, Likes(doc.data, Len(doc.data)), Len(doc.data)) IN
         IF t.failed THEN [status |-> "raised", value |-> [kind |-> "KeyError", at |-> "likes"]]
         ELSE [status |-> "returned",
               value |-> [kind |-> "album",
                          artist |-> Positions(doc.data, "musicArtist"),
                          tracks |-> t.tracks]]

(* ----------------------------- the client ----------------------------- *)
Init ==
    /\ pc = "idle"
    /\ op = "none"
    /\ filter = None
    /\ body = NoValue
    /\ requests = 0
    /\ response = NoValue
    /\ outcome = "none"
    /\ result = NoValue

\* search(query, filter), lines 43-67: up to the request
SearchCall(f) ==
    /\ pc = "idle"
    /\ op' = "search"
    /\ filter' = f
    /\ requests' = 0
    /\ response' = NoValue
    /\ IF InvalidFilter(f)
       THEN /\ pc' = "done"
            /\ outcome' = "raised"
            /\ result' = [kind |-> "Exception", message |-> "Invalid filter provided"]
            /\ body' = NoValue
       ELSE /\ pc' = "sending"
            /\ outcome' = "none"
            /\ result' = NoValue
            /\ body' = SearchBody(f)

\* self._send_request(endpoint, body), line 69
SearchSend ==
    /\ pc = "sending" /\ op = "search"
    /\ \E doc \in SearchDocs : response' = doc
    /\ requests' = requests + 1
    /\ pc' = "parsing"
    /\ UNCHANGED <<op, filter, body, outcome, result>>

\* search, lines 71-101
SearchParse ==
    /\ pc = "parsing" /\ op = "search"
    /\ LET r == SearchResultOf(response, filter) IN
         /\ outcome' = r.status
         /\ result' = r.value
    /\ pc' = "done"
    /\ UNCHANGED <<op, filter, body, requests, response>>

\* a call that goes straight to its request: lines 175-176, 259-260, 325-326
BrowseCall(o) ==
    /\ pc = "idle"
    /\ op' = o
    /\ pc' = "sending"
    /\ body' = [browseId |-> "id"]
    /\ requests' = 0
    /\ UNCHANGED <<filter, response, outcome, result>>

\* get_artist(channelId), lines 175-176
GetArtistCall == BrowseCall("get_artist")

\* self._send_request(endpoint, body), line 177
GetArtistSend ==
    /\ pc = "sending" /\ op = "get_artist"
    /\ \E doc \in ArtistDocs : response' = doc
    /\ requests' = requests + 1
    /\ pc' = "parsing"
    /\ UNCHANGED <<op, filter, body, outcome, result>>

\* get_artist fetches the full album listing itself
GetArtistParse_fetchesListing ==
    /\ pc = "parsing" /\ op = "get_artist"
    /\ LET r == GetArtistResult(response) IN
         /\ outcome' = r.status
         /\ result' = r.value
         /\ requests' = IF r.status = "returned" /\ "albums" \in DOMAIN r.value
                        THEN requests + 1 ELSE requests
    /\ pc' = "done"
    /\ UNCHANGED <<op, filter, body, response>>

\* get_artist, lines 178-238
GetArtistParse ==
    /\ pc = "parsing" /\ op = "get_artist"
    /\ LET r == GetArtistResult(response) IN
         /\ outcome' = r.status
         /\ result' = r.value
    /\ pc' = "done"
    /\ UNCHANGED <<op, filter, body, requests, response>>

\* get_artist_albums(channelId, params), lines 259-260
GetArtistAlbumsCall == BrowseCall("get_artist_albums")

\* self._send_request(endpoint, body), line 261
GetArtistAlbumsSend ==
    /\ pc = "sending" /\ op = "get_artist_albums"
    /\ \E doc \in ListingDocs : response' = doc
    /\ requests' = requests + 1
    /\ pc' = "parsing"
    /\ UNCHANGED <<op, filter, body, outcome, result>>

\* get_artist_albums, lines 262-283
GetArtistAlbumsParse ==
    /\ pc = "parsing" /\ op = "get_artist_albums"
    /\ LET r == GetArtistAlbumsResult(response) IN
         /\ outcome' = r.status
         /\ result' = r.value
    /\ pc' = "done"
    /\ UNCHANGED <<op, filter, body, requests, response>>

\* get_album(browseId), lines 325-326
GetAlbumCall == BrowseCall("get_album")

\* self._send_request(endpoint, body), line 327
GetAlbumSend ==
    /\ pc = "sending" /\ op = "get_album"
    /\ \E doc \in AlbumDocs : response' = doc
    /\ requests' = requests + 1
    /\ pc' = "parsing"
    /\ UNCHANGED <<op, filter, body, outcome, result>>

\* get_album, lines 328-373
GetAlbumParse ==
    /\ pc = "parsing" /\ op = "get_album"
    /\ LET r == GetAlbumResult(response) IN
         /\ outcome' = r.status
         /\ result' = r.value
    /\ pc' = "done"
    /\ UNCHANGED <<op, filter, body, requests, response>>

\* the caller takes the result (or the exception); the next call starts clean
Return ==
    /\ pc = "done"
    /\ pc' = "idle"
    /\ op' = "none"
    /\ filter' = None
    /\ body' = NoValue
    /\ requests' = 0
    /\ response' = NoValue
    /\ outcome' = "none"
    /\ result' = NoValue

Next ==
    \/ \E f \in FilterArgs : SearchCall(f)
    \/ SearchSend
    \/ SearchParse
    \/ GetArtistCall
    \/ GetArtistSend
    \/ GetArtistParse
    \/ GetArtistAlbumsCall
    \/ GetArtistAlbumsSend
    \/ GetArtistAlbumsParse
    \/ GetAlbumCall
    \/ GetAlbumSend
    \/ GetAlbumParse
    \/ Return

Spec == Init /\ [][Next]_vars

(* ============================ properties ============================== *)
SearchDone == op = "search" /\ pc = "done" /\ response # NoValue
ArtistReturned == op = "get_artist" /\ pc = "done" /\ outcome = "returned"
ListingReturned == op = "get_artist_albums" /\ pc = "done" /\ outcome = "returned"
AlbumReturned == op = "get_album" /\ pc = "done" /\ outcome = "returned"

Min(S) == CHOOSE x \in S : \A y \in S : x <= y

tracks == <<"t", "r", "a", "c", "k", "s">>

\* C1, as stated: search called with a filter that is supplied but is not one
\* of the five recognized values raises, and no request is sent in that call.
C1_AnySuppliedFilterRaises ==
    (op = "search" /\ filter.present /\ filter.text \notin filters)
        => (pc = "done" /\ outcome = "raised" /\ requests = 0)

\* C1, amended: search called with a non-empty filter that is not one of the
\* five recognized values raises before any request is sent (send_request is
\* called zero times); an empty filter string is treated as an absent filter
\* and does not raise.
C1_NonEmptyUnknownFilterRaises ==
    /\ (op = "search" /\ filter.present /\ filter.text # <<>> /\ filter.text \notin filters)
           => (pc = "done" /\ outcome = "raised" /\ result.kind = "Exception"
               /\ requests = 0 /\ response = NoValue)
    /\ (op = "search" /\ (filter = Some(<<>>) \/ filter = None \/ filter.text \in filters))
           => outcome # "raised"

C1_Witness ==
    op = "search" /\ pc = "done" /\ filter = Some(tracks) /\ outcome = "raised" /\ requests = 0

\* the response is a single item-section renderer (no shelf)
SingleItemSection ==
    /\ response.container \in {"tabbed", "plain"}
    /\ response.sectionList
    /\ Len(response.sections) = 1
    /\ response.sections[1].kind = "itemSectionRenderer"

\* C2: search returns the empty sequence, without raising, when the response
\* has no `contents` key and when its section list is a single item-section
\* renderer.
C2_NoResultShapesGiveEmpty ==
    (SearchDone /\ (response.container = "absent" \/ SingleItemSection))
        => (outcome = "returned" /\ result = <<>>)

C2_Witness == SearchDone /\ SingleItemSection /\ outcome = "returned" /\ result = <<>>

\* The document read in order: one entry per shelf item, and one failing
\* entry for a shelf without contents.
SectionEvents(sections, i) ==
    IF sections[i].kind # "musicShelfRenderer" THEN <<>>
    ELSE IF ~sections[i].hasContents THEN <<[section |-> i, item |-> 0, good |-> FALSE]>>
    ELSE [j \in DOMAIN sections[i].contents |->
            [section |-> i, item |-> j, good |-> sections[i].contents[j] = "ok"]]

RECURSIVE DocumentEvents(_, _)
DocumentEvents(sections, n) ==
    IF n = 0 THEN <<>> ELSE DocumentEvents(sections, n - 1) \o SectionEvents(sections, n)

\* the tag of a result: the filter's singular, or the parser's own detection
ExpectedType ==
    CASE filter.text = albums -> <<"a", "l", "b", "u", "m">>
      [] filter.text = artists -> <<"a", "r", "t", "i", "s", "t">>
      [] filter.text = playlists -> <<"p", "l", "a", "y", "l", "i", "s", "t">>
      [] filter.text = songs -> <<"s", "o", "n", "g">>
      [] filter.text = videos -> <<"v", "i", "d", "e", "o">>
      [] OTHER -> <<"d", "e", "t", "e", "c", "t", "e", "d">>

\* the results of the items that precede the first failure, in document order
ExpectedSearchResults ==
    IF response.container \notin {"tabbed", "plain"} \/ ~response.sectionList THEN <<>>
    ELSE LET ev == DocumentEvents(response.sections, Len(response.sections))
             bad == {k \in DOMAIN ev : ~ev[k].good}
             cut == IF bad = {} THEN Len(ev) ELSE Min(bad) - 1
         IN [k \in 1..cut |->
                [section |-> ev[k].section, item |-> ev[k].item, resultType |-> ExpectedType]]

\* C3: for every absent or recognized filter and every response document,
\* search returns a sequence and never raises; after a structural failure the
\* sequence is exactly the parsed results of the items walked before it, in
\* document order.
C3_SearchDegradesToPartialResults ==
    SearchDone => (outcome = "returned" /\ result = ExpectedSearchResults)

\* a failure in the second shelf after a parsed item in the first
C3_Witness ==
    /\ SearchDone
    /\ Len(response.sections) = 2
    /\ response.sections[1] = Shelf(<<"ok">>)
    /\ response.sections[2] = Shelf(<<"bad">>)
    /\ Len(result) = 1

\* C8: every call of search (with an absent or recognized filter), get_artist,
\* get_artist_albums and get_album calls send_request exactly once, before any
\* parsing, whether parsing then succeeds or fails; none sends a second request.
C8_ExactlyOneRequest ==
    /\ pc = "sending" => (requests = 0 /\ response = NoValue)
    /\ pc = "parsing" => (requests = 1 /\ outcome = "none" /\ result = NoValue)
    /\ (pc = "done" /\ (op # "search" \/ ~filter.present \/ filter.text \in filters))
           => requests = 1

\* get_artist returned pointers to the full album listing, and sent one request
C8_Witness ==
    /\ ArtistReturned
    /\ "albums" \in DOMAIN result
    /\ "params" \in DOMAIN result["albums"]
    /\ requests = 1

\* the user-detail mutations of the track emitted from mutation n
DetailsOf(n) ==
    {i \in DOMAIN response.data :
        /\ response.data[i].kind = "musicTrackUserDetail"
        /\ response.data[i].key = response.data[n].key}

C5_UnmatchedTrackFails ==
    (op = "get_album" /\ pc = "done" /\ response.mutations
       /\ \E n \in DOMAIN response.data :
             response.data[n].kind = "musicTrack" /\ DetailsOf(n) = {})
        => outcome = "raised"

\* the fixed key set of an ArtistProfile
ArtistKeys ==
    {"description", "views", "name", "channelId", "subscribers", "subscribed",
     "thumbnails", "songs", "albums", "singles", "videos"}

\* C6: the record get_artist returns has the same keys whatever optional parts
\* the response has: songs with browseId and results, albums and singles with
\* browseId, results and params, videos with browseId and results.
C6_ArtistHasFixedKeys ==
    ArtistReturned =>
        /\ DOMAIN result = ArtistKeys
        /\ DOMAIN result["songs"] = {"browseId", "results"}
        /\ DOMAIN result["albums"] = {"browseId", "results", "params"}
        /\ DOMAIN result["singles"] = {"browseId", "results", "params"}
        /\ DOMAIN result["videos"] = {"browseId", "results"}

\* C7: get_artist_albums emits one AlbumRef per row, in row order; under the
\* title "albums" a row's type is the text at position 1 and its year the text
\* at position 2 of it, under the title "singles" the type is "Single" and
\* the year is the text at position 1.
C7_TypeAndYearByReleaseType ==
    ListingReturned =>
        /\ Len(result) = Len(response.contents)
        /\ \A i \in DOMAIN result :
              LET row == response.contents[i] IN
                /\ result[i].title = row[1][1]
                /\ response.title = <<"A", "l", "b", "u", "m", "s">>
                       => (result[i].type = row[2][1] /\ result[i].year = row[2][3])
                /\ response.title = <<"S", "i", "n", "g", "l", "e", "s">>
                       => (result[i].type = "Single" /\ result[i].year = row[2][1])

C7_Witness ==
    /\ ListingReturned
    /\ response.title = <<"A", "l", "b", "u", "m", "s">>
    /\ Len(result) = 2
    /\ result[1].type = "EP" /\ result[1].year = "2020"
    /\ result[2].type = "Album" /\ result[2].year = "2018"

\* C9: get_album emits exactly one track record per musicTrack mutation, in
\* mutation order, wherever in the sequence the mutation stands.
C9_OneTrackPerTrackMutation ==
    AlbumReturned =>
        [j \in DOMAIN result.tracks |-> result.tracks[j].mutation]
            = Positions(response.data, "musicTrack")

\* the category a carousel title stands for in a language, "" for none
TitleCategory(lang, title) ==
    CASE title = <<"A", "l", "b", "u", "m", "s">> /\ lang = "en" -> "albums"
      [] title = <<"A", "l", "b", "e", "n">> /\ lang = "de" -> "albums"
      [] title = <<"S", "i", "n", "g", "l", "e", "s">> -> "singles"
      [] title = <<"V", "i", "d", "e", "o", "s">> -> "videos"
      [] OTHER -> ""

\* the carousels of the response that stand for category c
Matching(c) ==
    {i \in DOMAIN response.carousels :
        TitleCategory(response.lang, response.carousels[i].title) = c}

\* the results under each category are the items, in order, of the first
\* carousel that stands for it; other carousels contribute nothing
FirstMatchDecides ==
    \A c \in {"albums", "singles", "videos"} :
        IF Matching(c) = {} THEN c \notin DOMAIN result
        ELSE /\ c \in DOMAIN result
             /\ [i \in DOMAIN result[c].results |-> result[c].results[i].title]
                    = response.carousels[Min(Matching(c))].contents

Reordered(seq) == {[i \in DOMAIN seq |-> seq[p[i]]] : p \in Permutations(DOMAIN seq)}

\* the record get_artist returns for every order of the carousels
OrderIndependent ==
    \A cs \in Reordered(response.carousels) :
        GetArtistResult([response EXCEPT !.carousels = cs]).value = result

\* C10, as stated: the results under each category are the items of the first
\* carousel whose lower-cased title is the category's label, and the outcome
\* does not depend on the order of the carousels.
C10_CategoriesIgnoreOrder ==
    ArtistReturned => (FirstMatchDecides /\ OrderIndependent)

\* C10, amended: the results under each category are the items, in order, of
\* the first carousel whose lower-cased title is the category's label; a
\* carousel with another title contributes to no category; the outcome does
\* not depend on the order of the carousels when no two of them stand for the
\* same category (among several, the first in the response decides).
C10_CategoriesByFirstMatch ==
    ArtistReturned =>
        /\ FirstMatchDecides
        /\ (\A c \in {"albums", "singles", "videos"} : Cardinality(Matching(c)) <= 1)
               => OrderIndependent

\* a German page: "Alben" fills albums, "Albums" fills nothing
C10_Witness ==
    /\ ArtistReturned
    /\ response.lang = "de"
    /\ Len(response.carousels) = 2
    /\ response.carousels[1].title = <<"A", "l", "b", "u", "m", "s">>
    /\ response.carousels[2].title = <<"A", "l", "b", "e", "n">>
    /\ "albums" \in DOMAIN result
    /\ Len(result["albums"].results) = 2

====
